---- MODULE Spec2Model ----
(***************************************************************************)
(* A model of ssz-rs-test-gen (src/ssz-rs-test-gen/src/main.rs): the       *)
(* generator that turns the consensus-spec ssz_generic fixture corpus into *)
(* Rust test source and mirrors the payload files.                         *)
(*                                                                         *)
(* Text is modelled by TLA+ strings (TLC treats them as sequences of       *)
(* characters: Len, SubSeq and \o work on them), so that str::contains,    *)
(* str::split, slicing and format! are computed as the code computes them. *)
(* A yaml value is the record [k, s, keys, items]: k is its kind ("num",   *)
(* "str", "bool", "seq", "map"), s the text of a scalar, items the         *)
(* children and keys the keys of a mapping's children.                     *)
(***************************************************************************)
EXTENDS Integers, Sequences, FiniteSets, TLC

VARIABLES
    \* --- to_rust_type / to_rust_value on one (category, name, value) ---
    ty_cat,      \* SszType the resolver is asked about
    ty_name,     \* case name
    ty_value,    \* yaml value handed to to_rust_value
    ty_type,     \* result of to_rust_type: [panic, text]
    ty_rule,     \* branch of to_rust_value's if-chain that was taken
    ty_lit,      \* result of to_rust_value: [panic, text]
    ty_pc,       \* "start" | "typed" | "valued"
    \* --- to_rust_u256 on one scalar ---
    u_in,        \* the yaml string: a base-10 numeral
    u_bytes,     \* x_bytes after resize (<<>> before the call and on panic)
    u_res,       \* result of to_rust_u256: [panic, text]
    u_pc,        \* "start" | "done"
    \* --- to_rust_struct on one mapping ---
    st_type,     \* rust_type: the exemplar container's name
    st_value,    \* the yaml value handed to to_rust_struct
    st_res,      \* result of to_rust_struct: [panic, text]
    st_pc,       \* "start" | "done"
    \* --- generate_for, run twice over one corpus ---
    corpus,      \* the fixture tree: the case directories under valid/ and invalid/
    category,    \* SszType of the run
    run,         \* 1 or 2: which run over the corpus this is
    dir_enum,    \* the directories fs::read_dir has yielded so far, in order
    test_cases,  \* Generator::test_cases: name -> TestCase
    components,  \* Generator::components
    pc,          \* position in generate_for / execute
    cur,         \* the directory being loaded, then the case execute's loop holds
    emitted,     \* case names execute's loop has taken, in order
    target_file, \* the output file: the texts written to it, in order
    target_data, \* mirrored artifacts: target path -> contents
    panic_msg,   \* message of the panic that aborted the run ("" while running)
    prev_file,   \* the output file as the previous run left it
    prev_data    \* the mirrored artifacts as the previous run left them

ty_vars == <<ty_cat, ty_name, ty_value, ty_type, ty_rule, ty_lit, ty_pc>>
u_vars == <<u_in, u_bytes, u_res, u_pc>>
st_vars == <<st_type, st_value, st_res, st_pc>>
gen_vars == <<corpus, category, run, dir_enum, test_cases, components, pc, cur,
              emitted, target_file, target_data, panic_msg, prev_file, prev_data>>
vars == <<ty_vars, u_vars, st_vars, gen_vars>>

----------------------------------------------------------------------------
(* Rust's str and Vec operations the program uses.                         *)

Ch(s, i) == SubSeq(s, i, i)

\* str::contains(pat)
Contains(s, pat) ==
    \E i \in 1..(Len(s) - Len(pat) + 1) : SubSeq(s, i, i + Len(pat) - 1) = pat

\* str::split(sep).collect::<Vec<&str>>() for a one-character separator:
\* n separators give n + 1 parts, empty parts kept.
RECURSIVE SplitAcc(_, _, _, _)
SplitAcc(s, sep, part, acc) ==
    IF s = "" THEN Append(acc, part)
    ELSE IF Ch(s, 1) = sep
         THEN SplitAcc(SubSeq(s, 2, Len(s)), sep, "", Append(acc, part))
         ELSE SplitAcc(SubSeq(s, 2, Len(s)), sep, part \o Ch(s, 1), acc)

Split(s, sep) == SplitAcc(s, sep, "", <<>>)

\* [String]::join(sep)
RECURSIVE Join(_, _)
Join(parts, sep) ==
    IF parts = <<>> THEN ""
    ELSE IF Len(parts) = 1 THEN parts[1]
    ELSE parts[1] \o sep \o Join(Tail(parts), sep)

\* The result of a call that may panic: its value, or the panic's message.
Ok(text) == [panic |-> FALSE, text |-> text]
Panic(msg) == [panic |-> TRUE, text |-> msg]

\* The messages of Option::unwrap and Result::unwrap (without their backquotes;
\* the Err's own text is not modelled).
UnwrapNone == "called Option::unwrap() on a None value"
UnwrapErr == "called Result::unwrap() on an Err value"

\* An alphabet as the table of its characters' positions, and the position of
\* the one-character string c in it (0 when absent).
Alphabet(chars) ==
    [c \in {Ch(chars, i) : i \in 1..Len(chars)} |->
        CHOOSE i \in 1..Len(chars) : Ch(chars, i) = c]

IndexIn(c, alphabet) == IF c \in DOMAIN alphabet THEN alphabet[c] ELSE 0

UpperLetters == Alphabet("ABCDEFGHIJKLMNOPQRSTUVWXYZ")
LowerLetters == "abcdefghijklmnopqrstuvwxyz"
DecDigits == Alphabet("0123456789")
HexDigitsLower == Alphabet("0123456789abcdef")
HexDigitsUpper == Alphabet("0123456789ABCDEF")

\* str::to_lowercase (ASCII letters)
RECURSIVE ToLowercase(_)
ToLowercase(s) ==
    IF s = "" THEN ""
    ELSE LET c == Ch(s, 1)
             i == IndexIn(c, UpperLetters)
         IN (IF i = 0 THEN c ELSE Ch(LowerLetters, i)) \o ToLowercase(SubSeq(s, 2, Len(s)))

IsSpace(c) == c \in {" ", "\n", "\t", "\r"}

\* str::trim
RECURSIVE TrimStart(_)
TrimStart(s) == IF s # "" /\ IsSpace(Ch(s, 1)) THEN TrimStart(SubSeq(s, 2, Len(s))) ELSE s
RECURSIVE TrimEnd(_)
TrimEnd(s) ==
    IF s # "" /\ IsSpace(Ch(s, Len(s))) THEN TrimEnd(SubSeq(s, 1, Len(s) - 1)) ELSE s
Trim(s) == TrimEnd(TrimStart(s))

\* str::trim_matches('\'')
RECURSIVE TrimQuotesStart(_)
TrimQuotesStart(s) ==
    IF s # "" /\ Ch(s, 1) = "'" THEN TrimQuotesStart(SubSeq(s, 2, Len(s))) ELSE s
RECURSIVE TrimQuotesEnd(_)
TrimQuotesEnd(s) ==
    IF s # "" /\ Ch(s, Len(s)) = "'" THEN TrimQuotesEnd(SubSeq(s, 1, Len(s) - 1)) ELSE s
TrimQuotes(s) == TrimQuotesEnd(TrimQuotesStart(s))

AllIn(s, set) == \A i \in 1..Len(s) : IndexIn(Ch(s, i), set) # 0

\* format!("{bytes:?}") of a Vec<u8>
DebugBytes(bytes) ==
    "[" \o Join([i \in 1..Len(bytes) |-> ToString(bytes[i])], ", ") \o "]"

\* The first panic among a sequence of results, in evaluation order.
RECURSIVE FirstPanic(_)
FirstPanic(rs) ==
    IF rs = <<>> THEN Ok("")
    ELSE IF rs[1].panic THEN rs[1] ELSE FirstPanic(Tail(rs))

Texts(rs) == [i \in 1..Len(rs) |-> rs[i].text]

----------------------------------------------------------------------------
(* serde_yaml values.                                                      *)

Num(s) == [k |-> "num", s |-> s, keys |-> <<>>, items |-> <<>>]
Str(s) == [k |-> "str", s |-> s, keys |-> <<>>, items |-> <<>>]
Bool(s) == [k |-> "bool", s |-> s, keys |-> <<>>, items |-> <<>>]
SeqV(items) == [k |-> "seq", s |-> "", keys |-> <<>>, items |-> items]
MapV(keys, items) == [k |-> "map", s |-> "", keys |-> keys, items |-> items]

\* Whether serde_yaml's emitter single-quotes a string scalar: it does when the
\* plain text would read back as another type (empty, a boolean or null word,
\* a decimal or 0x numeral).
NeedsQuote(s) ==
    \/ s = ""
    \/ s \in {"true", "false", "null", "~"}
    \/ AllIn(s, DecDigits)
    \/ Len(s) > 2 /\ SubSeq(s, 1, 2) = "0x" /\ AllIn(SubSeq(s, 3, Len(s)), HexDigitsLower)

\* serde_yaml::to_string(v): scalars on one line, a sequence as "- item" lines,
\* a mapping as "key: item" lines (nested collections start on the next line).
RECURSIVE YamlToString(_)
YamlToString(v) ==
    CASE v.k = "num" -> v.s \o "\n"
      [] v.k = "bool" -> v.s \o "\n"
      [] v.k = "str" -> (IF NeedsQuote(v.s) THEN "'" \o v.s \o "'" ELSE v.s) \o "\n"
      [] v.k = "seq" ->
            IF v.items = <<>> THEN "[]\n"
            ELSE Join([i \in 1..Len(v.items) |-> "- " \o YamlToString(v.items[i])], "")
      [] v.k = "map" ->
            IF v.items = <<>> THEN "{}\n"
            ELSE Join([i \in 1..Len(v.items) |->
                        v.keys[i] \o ":"
                        \o (IF v.items[i].k \in {"seq", "map"} /\ v.items[i].items # <<>>
                            THEN "\n" ELSE " ")
                        \o YamlToString(v.items[i])], "")

value_to_compact_string(v) == Trim(YamlToString(v))

----------------------------------------------------------------------------
(* num_bigint::BigUint, as little-endian base-256 digit sequences with no  *)
(* high zero digit (zero is the empty sequence).                           *)

\* x * m + carry
RECURSIVE MulAdd(_, _, _)
MulAdd(x, m, carry) ==
    IF x = <<>>
    THEN (IF carry = 0 THEN <<>> ELSE <<carry % 256>> \o MulAdd(<<>>, m, carry \div 256))
    ELSE LET t == x[1] * m + carry
         IN <<t % 256>> \o MulAdd(Tail(x), m, t \div 256)

\* The value of a short decimal numeral (at most six digits).
RECURSIVE DecVal(_)
DecVal(digits) ==
    IF digits = "" THEN 0
    ELSE 10 * DecVal(SubSeq(digits, 1, Len(digits) - 1))
         + IndexIn(Ch(digits, Len(digits)), DecDigits) - 1

\* from_radix_digits_be: the numeral is taken in chunks of digits from the most
\* significant end (the first chunk is the short one), x := x * base + chunk.
RECURSIVE FromDecimal(_)
FromDecimal(digits) ==
    IF Len(digits) <= 6 THEN MulAdd(<<>>, 1, DecVal(digits))
    ELSE MulAdd(FromDecimal(SubSeq(digits, 1, Len(digits) - 6)), 1000000,
                DecVal(SubSeq(digits, Len(digits) - 5, Len(digits))))

RECURSIVE DropUnderscores(_)
DropUnderscores(s) ==
    IF s = "" THEN ""
    ELSE (IF Ch(s, 1) = "_" THEN "" ELSE Ch(s, 1)) \o DropUnderscores(SubSeq(s, 2, Len(s)))

\* <BigUint as FromStr>::from_str: one leading "+" is skipped, the text must not
\* be empty nor start with "_", further "_" are skipped, the rest are digits.
\* [panic |-> the parse failed, bytes |-> the number]
ParseBigUint(text) ==
    LET s == IF Len(text) > 0 /\ Ch(text, 1) = "+"
                  /\ ~(Len(text) > 1 /\ Ch(text, 2) = "+")
             THEN SubSeq(text, 2, Len(text)) ELSE text
    IN IF s = "" \/ Ch(s, 1) = "_" \/ ~AllIn(DropUnderscores(s), DecDigits)
       THEN [panic |-> TRUE, bytes |-> <<>>]
       ELSE [panic |-> FALSE, bytes |-> FromDecimal(DropUnderscores(s))]

\* BigUint::to_bytes_le: zero is one zero byte
to_bytes_le(x) == IF x = <<>> THEN <<0>> ELSE x

\* Vec::resize(new_len, 0) of a vector no longer than new_len
Resize(bytes, new_len) == bytes \o [i \in 1..(new_len - Len(bytes)) |-> 0]

U256Bytes == 32

\* The assertion of line 162 off by one (len < 32).
LenFitsStrict(x_bytes) == Len(x_bytes) < U256Bytes

\* assert!(x_bytes.len() <= 32)
LenFits(x_bytes) == Len(x_bytes) <= U256Bytes

\* The assertion and the resize, on the bytes of the number.
PaddedBytes(x_bytes) ==
    IF ~LenFits(x_bytes)
    THEN [panic |-> TRUE, text |-> "assertion failed: x_bytes.len() <= 32", bytes |-> <<>>]
    ELSE [panic |-> FALSE, text |-> "", bytes |-> Resize(x_bytes, U256Bytes)]

\* The unwrap of the parse, then the bytes.
BytesOfParsed(x) ==
    IF x.panic THEN [panic |-> TRUE, text |-> UnwrapErr, bytes |-> <<>>]
    ELSE PaddedBytes(to_bytes_le(x.bytes))

\* to_rust_u256 up to the resize: [panic, text (the panic's message), bytes]
U256BytesOf(value) ==
    IF value.k # "str"
    THEN [panic |-> TRUE, text |-> UnwrapNone, bytes |-> <<>>]
    ELSE BytesOfParsed(ParseBigUint(value.s))

\* format!(pre {bytes:?} post) of bytes that were computed without a panic
RenderBytes(r, pre, post) ==
    IF r.panic THEN Panic(r.text) ELSE Ok(pre \o DebugBytes(r.bytes) \o post)

to_rust_u256(value) ==
    RenderBytes(U256BytesOf(value), "U256::try_from_le_slice(Vec::<u8>::from_iter(",
                ").as_ref()).unwrap()")

\* The value of a hex digit, -1 for any other character.
HexVal(c) ==
    IF c \in DOMAIN HexDigitsLower THEN HexDigitsLower[c] - 1
    ELSE IF c \in DOMAIN HexDigitsUpper THEN HexDigitsUpper[c] - 1
    ELSE -1

\* hex::decode of the digits h
HexDigitsDecode(h) ==
    IF Len(h) % 2 # 0 \/ \E i \in 1..Len(h) : HexVal(Ch(h, i)) < 0
    THEN [panic |-> TRUE, text |-> UnwrapErr, bytes |-> <<>>]
    ELSE [panic |-> FALSE, text |-> "",
          bytes |-> [i \in 1..(Len(h) \div 2) |->
                       16 * HexVal(Ch(h, 2 * i - 1)) + HexVal(Ch(h, 2 * i))]]

\* hex::decode(data.strip_prefix("0x").unwrap()).unwrap():
\* [panic, text (the panic's message), bytes]
HexDecode(data) ==
    IF ~(Len(data) >= 2 /\ SubSeq(data, 1, 2) = "0x")
    THEN [panic |-> TRUE, text |-> UnwrapNone, bytes |-> <<>>]
    ELSE HexDigitsDecode(SubSeq(data, 3, Len(data)))

HexOf(value) ==
    IF value.k # "str"
    THEN [panic |-> TRUE, text |-> UnwrapNone, bytes |-> <<>>]
    ELSE HexDecode(value.s)

to_rust_bitvector(value, rust_type) ==
    RenderBytes(HexOf(value),
                "<" \o rust_type \o " as TryFrom<&[u8]>>::try_from(Vec::<u8>::from_iter(",
                ").as_ref()).unwrap()")

to_rust_bitlist(value, rust_type) ==
    RenderBytes(HexOf(value),
                "<" \o rust_type \o " as TryFrom<&[u8]>>::try_from(Vec::<u8>::from_iter(",
                ").as_ref()).unwrap()")

NotASequence == Panic(UnwrapNone)

\* collect and join(sep) of results, the first panic raised in their
\* evaluation if there is one, and format!(pre {joined} post)
Collect(values, sep, pre, post) ==
    IF \E i \in 1..Len(values) : values[i].panic THEN FirstPanic(values)
    ELSE Ok(pre \o Join(Texts(values), sep) \o post)

\* format!(pre {inner} post) of a text that was computed without a panic
Wrap(inner, pre, post) ==
    IF inner.panic THEN inner ELSE Ok(pre \o inner.text \o post)

\* The last arm of to_rust_vector, on the parts of rust_type split at "<".
VectorOfParts(value, rust_type, parts) ==
    IF Len(parts) < 2
    THEN Panic("index out of bounds: the len is 1 but the index is 1")
    ELSE IF value.k # "seq" THEN NotASequence
    ELSE Ok(rust_type \o "::try_from(Vec::<" \o Split(parts[2], ",")[1] \o ">::from_iter(["
            \o Join([i \in 1..Len(value.items) |->
                       value_to_compact_string(value.items[i])], ", ")
            \o "])).unwrap()")

to_rust_vector(value, rust_type) ==
    IF Contains(rust_type, "U256") THEN
        IF value.k # "seq" THEN NotASequence
        ELSE Collect([i \in 1..Len(value.items) |-> to_rust_u256(value.items[i])], ", ",
                     rust_type \o "::try_from(Vec::<U256>::from_iter([", "])).unwrap()")
    ELSE IF Contains(rust_type, "u128") THEN
        IF value.k # "seq" THEN NotASequence
        ELSE Collect([i \in 1..Len(value.items) |->
                        IF value.items[i].k # "str" THEN NotASequence
                        ELSE Ok(Trim(value.items[i].s))], ", ",
                     rust_type \o "::try_from(Vec::<u128>::from_iter([", "])).unwrap()")
    ELSE VectorOfParts(value, rust_type, Split(rust_type, "<"))

\* The rendered elements of a yaml sequence joined by ", " (as_sequence().unwrap(),
\* map(value_to_compact_string), join).
CompactElements(value) ==
    IF value.k # "seq" THEN NotASequence
    ELSE Ok(Join([i \in 1..Len(value.items) |-> value_to_compact_string(value.items[i])],
                 ", "))

RECURSIVE to_rust_struct(_, _)
RECURSIVE to_field_value(_, _, _)

\* as_sequence().unwrap().iter().map(|v| to_rust_struct(v.clone(), ty)), join(", ")
StructElements(value, ty) ==
    IF value.k # "seq" THEN NotASequence
    ELSE Collect([i \in 1..Len(value.items) |-> to_rust_struct(value.items[i], ty)], ", ",
                 "", "")

\* The type of a field of BitsStruct ("" for a field it does not have).
BitsFieldType(key) ==
    CASE key = "a" -> "Bitlist::<5>"
      [] key = "b" -> "Bitvector::<2>"
      [] key = "c" -> "Bitvector::<1>"
      [] key = "d" -> "Bitlist::<6>"
      [] key = "e" -> "Bitvector::<8>"
      [] OTHER -> ""

to_field_value(key, value, rust_type) ==
    CASE rust_type = "VarTestStruct" ->
            IF key = "b"
            THEN Wrap(CompactElements(value),
                      "List::<u16, 1024>::try_from(Vec::<u16>::from_iter([", "])).unwrap()")
            ELSE Ok(value_to_compact_string(value))
      [] rust_type = "ComplexTestStruct" ->
            CASE key = "b" ->
                    Wrap(CompactElements(value),
                         "List::<u16, 128>::try_from(Vec::<u16>::from_iter([", "])).unwrap()")
              [] key = "d" ->
                    RenderBytes(HexOf(value), "List::<u8, 256>::try_from(Vec::<u8>::from_iter(",
                                ")).unwrap()")
              [] key \in {"e", "f", "g"} ->
                    IF key = "e" THEN to_rust_struct(value, "VarTestStruct")
                    ELSE Wrap(StructElements(value, IF key = "f" THEN "FixedTestStruct"
                                                    ELSE "VarTestStruct"),
                              IF key = "f" THEN "Vector::<FixedTestStruct, 4>::try_from(vec!["
                              ELSE "Vector::<VarTestStruct, 2>::try_from(vec![",
                              "]).unwrap()")
              [] OTHER -> Ok(value_to_compact_string(value))
      [] rust_type = "BitsStruct" ->
            IF BitsFieldType(key) = ""
            THEN Panic("not implemented: unsupported field " \o key \o " for BitsStruct")
            ELSE IF key \in {"a", "d"} THEN to_rust_bitlist(value, BitsFieldType(key))
            ELSE to_rust_bitvector(value, BitsFieldType(key))
      [] OTHER -> Ok(value_to_compact_string(value))

\* One "key: value" entry of the literal, for the i-th pair of the mapping.
StructField(value, rust_type, i) ==
    Wrap(to_field_value(ToLowercase(value.keys[i]), value.items[i], rust_type),
         ToLowercase(value.keys[i]) \o ": ", "")

to_rust_struct(value, rust_type) ==
    IF value.k # "map" THEN Panic(UnwrapNone)
    ELSE Collect([i \in 1..Len(value.items) |-> StructField(value, rust_type, i)], ", ",
                 rust_type \o "{", "}")

ContainerNames ==
    <<"SingleFieldTestStruct", "SmallTestStruct", "FixedTestStruct", "VarTestStruct",
      "ComplexTestStruct", "BitsStruct">>

\* The branch of to_rust_value's if-chain that a case name selects.
ValueRule(name) ==
    IF Contains(name, "uint_256") THEN "u256"
    ELSE IF Contains(name, "bitvec") THEN "bitvector"
    ELSE IF Contains(name, "bitlist") THEN "bitlist"
    ELSE IF Contains(name, "vec_") THEN "vector"
    ELSE IF \E i \in 1..Len(ContainerNames) : Contains(name, ContainerNames[i]) THEN "struct"
    ELSE "scalar"

\* The body of the branch selected.
ValueByRule(rule, rust_type, value) ==
    CASE rule = "u256" -> to_rust_u256(value)
      [] rule = "bitvector" -> to_rust_bitvector(value, rust_type)
      [] rule = "bitlist" -> to_rust_bitlist(value, rust_type)
      [] rule = "vector" -> to_rust_vector(value, rust_type)
      [] rule = "struct" -> to_rust_struct(value, rust_type)
      [] OTHER -> Ok(TrimQuotes(value_to_compact_string(value)))

to_rust_value(name, rust_type, value) == ValueByRule(ValueRule(name), rust_type, value)

----------------------------------------------------------------------------
(* The type descriptor resolver.                                           *)

SszTypes == {"basic_vector", "bitlist", "bitvector", "boolean", "containers", "uints"}

OutOfBounds(len, index) ==
    Panic("index out of bounds: the len is " \o ToString(len) \o " but the index is "
          \o ToString(index))

UintPrefixLen == 4

\* to_element_type slicing the tag one character early (&s[3..]).
to_element_type_early(s) ==
    CASE s = "bool" -> Ok(s)
      [] s = "uint256" -> Ok("U256")
      [] OTHER ->
            IF Len(s) < UintPrefixLen - 1
            THEN Panic("byte index 3 is out of bounds of " \o s)
            ELSE Ok("u" \o SubSeq(s, UintPrefixLen, Len(s)))

to_element_type(s) ==
    CASE s = "bool" -> Ok(s)
      [] s = "uint256" -> Ok("U256")
      [] OTHER ->
            IF Len(s) < UintPrefixLen
            THEN Panic("byte index 4 is out of bounds of " \o s)
            ELSE Ok("u" \o SubSeq(s, UintPrefixLen + 1, Len(s)))

BitlistDefaultBound == "Bitlist::<256>"

\* The arms of to_rust_type, on the parts of the name split at "_".
TypeOfParts(ssz_type, parts) ==
    CASE ssz_type = "basic_vector" ->
            IF Len(parts) < 2 THEN OutOfBounds(Len(parts), 1)
            ELSE IF to_element_type(parts[2]).panic THEN to_element_type(parts[2])
            ELSE IF Len(parts) < 3 THEN OutOfBounds(Len(parts), 2)
            ELSE Ok("Vector::<" \o to_element_type(parts[2]).text \o ", " \o parts[3] \o ">")
      [] ssz_type = "bitlist" ->
            IF Len(parts) < 2 THEN OutOfBounds(Len(parts), 1)
            ELSE IF parts[2] = "no" THEN Ok(BitlistDefaultBound)
            ELSE Ok("Bitlist::<" \o parts[2] \o ">")
      [] ssz_type = "bitvector" ->
            IF Len(parts) < 2 THEN OutOfBounds(Len(parts), 1)
            ELSE Ok("Bitvector::<" \o parts[2] \o ">")
      [] ssz_type = "boolean" -> Ok("bool")
      [] ssz_type = "containers" -> Ok(parts[1])
      [] ssz_type = "uints" ->
            IF Len(parts) < 2 THEN OutOfBounds(Len(parts), 1)
            ELSE IF Contains(parts[2], "256") THEN Ok("U256")
            ELSE Ok("u" \o parts[2])

to_rust_type(ssz_type, name) == TypeOfParts(ssz_type, Split(name, "_"))

----------------------------------------------------------------------------
(* The variables of the parts a specification does not run stay at rest.   *)

NoResult == [panic |-> FALSE, text |-> "<not called>"]

TyIdle ==
    /\ ty_cat = "boolean" /\ ty_name = "" /\ ty_value = Num("0")
    /\ ty_type = NoResult /\ ty_rule = "" /\ ty_lit = NoResult /\ ty_pc = "idle"

UIdle == u_in = "" /\ u_bytes = <<>> /\ u_res = NoResult /\ u_pc = "idle"

StIdle == st_type = "" /\ st_value = Num("0") /\ st_res = NoResult /\ st_pc = "idle"

GenIdle ==
    /\ corpus = {} /\ category = "boolean" /\ run = 0 /\ dir_enum = <<>>
    /\ test_cases = <<>> /\ components = <<>> /\ pc = "idle" /\ cur = ""
    /\ emitted = <<>> /\ target_file = <<>> /\ target_data = <<>>
    /\ panic_msg = "" /\ prev_file = <<>> /\ prev_data = <<>>

----------------------------------------------------------------------------
(* SpecType: to_rust_type and to_rust_value applied to one case, as        *)
(* execute applies them (lines 433 and 438) to a valid case.               *)

VecElems == {"bool", "uint8", "uint16", "uint32", "uint64", "uint128", "uint256"}
UintWidths == {"8", "16", "32", "64", "128", "256"}
Bounds == {"1", "3", "31", "512"}
BitBounds == {"no", "1", "8", "512"}
Suffixes == {"_zero", "_max", "_random_2", ""}

VectorNames == {"vec_" \o e \o "_" \o b \o x : e \in VecElems, b \in Bounds, x \in Suffixes}
BitlistNames == {"bitlist_" \o b \o x : b \in BitBounds, x \in Suffixes}
BitvectorNames == {"bitvec_" \o b \o x : b \in BitBounds \ {"no"}, x \in Suffixes}
BooleanNames == {"true", "false", "byte_2", "byte_rev_nibble"}
StructNames == {ContainerNames[i] \o x : i \in 1..Len(ContainerNames), x \in Suffixes}
UintNames == {"uint_" \o w \o x : w \in UintWidths \cup {"1256", "2560"}, x \in Suffixes}
\* Names off the corpus's convention.
OddNames == {"", "vec", "bitlist", "u_256_max", "uints_256_zero", "value_uint_256",
             "vec_u8_2", "vec_uint_256_1", "x_bitvec_4", "VarTestStruct_bitlist_1"}

\* The case names tried under each category: the names of its convention and
\* the odd names that a directory under it can just as well have.
NamesOf(cat) ==
    CASE cat = "basic_vector" -> VectorNames \cup {"vec", "vec_u8_2", "vec_uint_256_1"}
      [] cat = "bitlist" -> BitlistNames \cup {"bitlist"}
      [] cat = "bitvector" -> BitvectorNames \cup {"x_bitvec_4"}
      [] cat = "boolean" -> BooleanNames \cup OddNames
      [] cat = "containers" -> StructNames \cup {"", "VarTestStruct_bitlist_1"}
      [] cat = "uints" -> UintNames \cup {"u_256_max", "uints_256_zero", "value_uint_256"}

TyValues ==
    { Num("5"), Bool("true"), Str("340282366920938463463374607431768211456"),
      Str("0x0102"), SeqV(<<Num("1"), Num("2"), Num("3")>>),
      MapV(<<"A", "b">>, <<Num("1"), Num("2")>>) }

TyInit ==
    /\ ty_cat \in SszTypes
    /\ ty_name \in NamesOf(ty_cat)
    /\ ty_value \in TyValues
    /\ ty_type = NoResult /\ ty_rule = "" /\ ty_lit = NoResult /\ ty_pc = "start"
    /\ UIdle /\ StIdle /\ GenIdle

ResolveType ==
    /\ ty_pc = "start"
    /\ ty_type' = to_rust_type(ty_cat, ty_name)
    /\ ty_pc' = "typed"
    /\ UNCHANGED <<ty_cat, ty_name, ty_value, ty_rule, ty_lit, u_vars, st_vars, gen_vars>>

ReconstructValue ==
    /\ ty_pc = "typed"
    /\ ~ty_type.panic
    /\ ty_rule' = ValueRule(ty_name)
    /\ ty_lit' = to_rust_value(ty_name, ty_type.text, ty_value)
    /\ ty_pc' = "valued"
    /\ UNCHANGED <<ty_cat, ty_name, ty_value, ty_type, u_vars, st_vars, gen_vars>>

TyNext == ResolveType \/ ReconstructValue

SpecType == TyInit /\ [][TyNext]_vars

----------------------------------------------------------------------------
(* SpecU256: to_rust_u256 applied to one decimal scalar.                   *)

MaxZeros == 78

RECURSIVE Zeros(_)
Zeros(n) == IF n = 0 THEN "" ELSE "0" \o Zeros(n - 1)

TwoPow128 == "340282366920938463463374607431768211456"
TwoPow256 ==
    "115792089237316195423570985008687907853269984665640564039457584007913129639936"
TwoPow256Less1 ==
    "115792089237316195423570985008687907853269984665640564039457584007913129639935"
TwoPow256Plus1 ==
    "115792089237316195423570985008687907853269984665640564039457584007913129639937"

\* Base-10 numerals without leading zeros: d * 10^k on both sides of 2^256, the
\* byte-length boundaries, and the powers of two the wide integers turn on.
U256Inputs ==
    {d \o Zeros(k) : d \in {"1", "2", "9", "11", "115", "116", "255", "256", "65535"},
                     k \in 0..MaxZeros}
    \cup {"0", "255", "256", "65536", TwoPow128, TwoPow256, TwoPow256Less1, TwoPow256Plus1}

UInit ==
    /\ u_in \in U256Inputs
    /\ u_bytes = <<>> /\ u_res = NoResult /\ u_pc = "start"
    /\ TyIdle /\ StIdle /\ GenIdle

CallU256 ==
    /\ u_pc = "start"
    /\ u_res' = to_rust_u256(Str(u_in))
    /\ u_bytes' = U256BytesOf(Str(u_in)).bytes
    /\ u_pc' = "done"
    /\ UNCHANGED <<u_in, ty_vars, st_vars, gen_vars>>

UNext == CallU256

SpecU256 == UInit /\ [][UNext]_vars

----------------------------------------------------------------------------
(* SpecStruct: to_rust_struct applied to one yaml value.                   *)

MaxFields == 2

FieldKeys == {"a", "A", "b", "c"}
FieldValues == {Num("1"), SeqV(<<Num("1"), Num("2"), Num("3")>>), Str("0x01")}

SmallMaps ==
    UNION {{MapV(ks, vs) : ks \in [1..n -> FieldKeys], vs \in [1..n -> FieldValues]} :
           n \in 0..MaxFields}

FixedExample == MapV(<<"A", "B", "C">>, <<Num("1"), Num("2"), Num("3")>>)
VarExample ==
    MapV(<<"A", "B", "C">>, <<Num("1"), SeqV(<<Num("1"), Num("2"), Num("3")>>), Num("4")>>)

\* A mapping of the shape the corpus gives each exemplar container.
Example(ty) ==
    CASE ty = "SingleFieldTestStruct" -> MapV(<<"A">>, <<Num("171")>>)
      [] ty = "SmallTestStruct" -> MapV(<<"A", "B">>, <<Num("1"), Num("2")>>)
      [] ty = "FixedTestStruct" -> FixedExample
      [] ty = "VarTestStruct" -> VarExample
      [] ty = "ComplexTestStruct" ->
            MapV(<<"A", "B", "C", "D", "E", "F", "G">>,
                 <<Num("1"), SeqV(<<Num("1"), Num("2")>>), Num("3"), Str("0x0102"),
                   VarExample, SeqV(<<FixedExample, FixedExample>>), SeqV(<<VarExample>>)>>)
      [] ty = "BitsStruct" ->
            MapV(<<"A", "B", "C", "D", "E">>,
                 <<Str("0x03"), Str("0x01"), Str("0x01"), Str("0x05"), Str("0xff")>>)

\* The fields each exemplar container declares (CONTAINERS_DEFN_FMT).
DeclaredFields(ty) ==
    CASE ty = "SingleFieldTestStruct" -> {"a"}
      [] ty = "SmallTestStruct" -> {"a", "b"}
      [] ty = "FixedTestStruct" -> {"a", "b", "c"}
      [] ty = "VarTestStruct" -> {"a", "b", "c"}
      [] ty = "ComplexTestStruct" -> {"a", "b", "c", "d", "e", "f", "g"}
      [] ty = "BitsStruct" -> {"a", "b", "c", "d", "e"}

StInit ==
    /\ st_type \in {ContainerNames[i] : i \in 1..Len(ContainerNames)}
    /\ st_value \in SmallMaps \cup {Example(st_type), Num("1")}
    /\ st_res = NoResult /\ st_pc = "start"
    /\ TyIdle /\ UIdle /\ GenIdle

CallStruct ==
    /\ st_pc = "start"
    /\ st_res' = to_rust_struct(st_value, st_type)
    /\ st_pc' = "done"
    /\ UNCHANGED <<st_type, st_value, ty_vars, u_vars, gen_vars>>

StNext == CallStruct

SpecStruct == StInit /\ [][StNext]_vars

----------------------------------------------------------------------------
(* The generator: constants and the text it emits.  (A TLA+ string cannot  *)
(* hold a backquote: the two in SRC_PREAMBLE are written as apostrophes.)  *)

SRC_DIR == "consensus-spec-tests/tests/general/phase0/ssz_generic/"
TARGET_DIR == "../ssz-rs/tests/"

SRC_PREAMBLE ==
    "//! This file was generated by 'ssz-rs-test-gen'; do NOT manually edit.\n"
    \o "mod test_utils;\n"
    \o "\n"
    \o "use ssz_rs::prelude::*;\n"
    \o "use test_utils::{\n"
    \o "    deserialize, hash_tree_root, read_ssz_snappy_from_test_data, root_from_hex, serialize,\n"
    \o "};\n"

CONTAINERS_DEFN_FMT ==
    "\n"
    \o "#[derive(PartialEq, Eq, Debug, Default, SimpleSerialize)]\n"
    \o "struct SingleFieldTestStruct {\n"
    \o "    a: u8,\n"
    \o "}\n"
    \o "\n"
    \o "#[derive(PartialEq, Eq, Debug, Default, SimpleSerialize)]\n"
    \o "struct SmallTestStruct {\n"
    \o "    a: u16,\n"
    \o "    b: u16,\n"
    \o "}\n"
    \o "\n"
    \o "#[derive(PartialEq, Eq, Debug, Default, Clone, SimpleSerialize)]\n"
    \o "struct FixedTestStruct {\n"
    \o "    a: u8,\n"
    \o "    b: u64,\n"
    \o "    c: u32,\n"
    \o "}\n"
    \o "\n"
    \o "#[derive(PartialEq, Eq, Debug, Default, Clone, SimpleSerialize)]\n"
    \o "struct VarTestStruct {\n"
    \o "    a: u16,\n"
    \o "    b: List<u16, 1024>,\n"
    \o "    c: u8,\n"
    \o "}\n"
    \o "\n"
    \o "#[derive(PartialEq, Eq, Debug, Default, SimpleSerialize)]\n"
    \o "struct ComplexTestStruct {\n"
    \o "    a: u16,\n"
    \o "    b: List<u16, 128>,\n"
    \o "    c: u8,\n"
    \o "    d: List<u8, 256>,\n"
    \o "    e: VarTestStruct,\n"
    \o "    f: Vector<FixedTestStruct, 4>,\n"
    \o "    g: Vector<VarTestStruct, 2>,\n"
    \o "}\n"
    \o "\n"
    \o "#[derive(PartialEq, Eq, Debug, Default, SimpleSerialize)]\n"
    \o "struct BitsStruct {\n"
    \o "    a: Bitlist<5>,\n"
    \o "    b: Bitvector<2>,\n"
    \o "    c: Bitvector<1>,\n"
    \o "    d: Bitlist<6>,\n"
    \o "    e: Bitvector<8>,\n"
    \o "}\n"

\* The format! of a valid case's test (execute, Format::Valid).
ValidFragment(ssz_type, name, value, target_data_path, rust_type, root) ==
    "\n"
    \o "                #[test]\n"
    \o "                fn test_" \o ssz_type \o "_" \o name \o "() {\n"
    \o "                    let value = " \o value \o ";\n"
    \o "                    let encoding = serialize(&value);\n"
    \o "                    let expected_encoding = read_ssz_snappy_from_test_data(\"" \o target_data_path \o "\");\n"
    \o "                    assert_eq!(encoding, expected_encoding);\n"
    \o "\n"
    \o "                    let recovered_value: " \o rust_type \o " = deserialize(&expected_encoding);\n"
    \o "                    assert_eq!(recovered_value, value);\n"
    \o "\n"
    \o "                    let root = hash_tree_root(&value);\n"
    \o "                    let expected_root = root_from_hex(\"" \o root \o "\");\n"
    \o "                    assert_eq!(root, expected_root);\n"
    \o "                }\n"
    \o "                "

\* The format! of an invalid case's test (execute, Format::Invalid).
InvalidFragment(ssz_type, name, target_data_path, rust_type) ==
    "\n"
    \o "                #[test]\n"
    \o "                #[should_panic]\n"
    \o "                fn test_" \o ssz_type \o "_" \o name \o "() {\n"
    \o "                    let encoding = read_ssz_snappy_from_test_data(\"" \o target_data_path \o "\");\n"
    \o "\n"
    \o "                    deserialize::<" \o rust_type \o ">(&encoding);\n"
    \o "                }\n"
    \o "                "

\* The characters of names, in byte order (String's Ord is bytewise).
AsciiOrder ==
    Alphabet(" -./0123456789ABCDEFGHIJKLMNOPQRSTUVWXYZ_abcdefghijklmnopqrstuvwxyz")

\* a < b as Strings
StrLess(a, b) ==
    LET n == IF Len(a) < Len(b) THEN Len(a) ELSE Len(b)
        diffs == {i \in 1..n : Ch(a, i) # Ch(b, i)}
    IN IF diffs = {} THEN Len(a) < Len(b)
       ELSE LET i == CHOOSE k \in diffs : \A j \in diffs : k <= j
            IN IndexIn(Ch(a, i), AsciiOrder) < IndexIn(Ch(b, i), AsciiOrder)

IsUpper(c) == IndexIn(c, UpperLetters) # 0
LowerAlphabet == Alphabet(LowerLetters)
IsLower(c) == IndexIn(c, LowerAlphabet) # 0
IsDigit(c) == IndexIn(c, DecDigits) # 0
IsDelim(c) == c \in {"_", "-", " "}

\* convert_case's word boundary between the characters at i and i + 1 of s:
\* lower|upper, letter|digit, digit|letter, and the end of an acronym.
BoundaryAfter(s, i) ==
    LET c == Ch(s, i)
        n == Ch(s, i + 1)
    IN /\ i < Len(s)
       /\ \/ IsLower(c) /\ IsUpper(n)
          \/ (IsUpper(c) \/ IsLower(c)) /\ IsDigit(n)
          \/ IsDigit(c) /\ (IsUpper(n) \/ IsLower(n))
          \/ IsUpper(c) /\ IsUpper(n) /\ i + 1 < Len(s) /\ IsLower(Ch(s, i + 2))

RECURSIVE SnakeWords(_, _, _, _)
SnakeWords(s, i, word, words) ==
    LET push(w) == IF w = "" THEN words ELSE Append(words, w) IN
    IF i > Len(s) THEN push(word)
    ELSE IF IsDelim(Ch(s, i)) THEN SnakeWords(s, i + 1, "", push(word))
    ELSE IF BoundaryAfter(s, i) THEN SnakeWords(s, i + 1, "", push(word \o Ch(s, i)))
    ELSE SnakeWords(s, i + 1, word \o Ch(s, i), words)

\* name.to_case(Case::Snake)
to_snake_case(name) == ToLowercase(Join(SnakeWords(name, 1, "", <<>>), "_"))

----------------------------------------------------------------------------
(* The fixture corpus.  A case directory is [fmt, name, parts]; a part is  *)
(* a file [name, yaml, data]: its name, its content read as yaml, and its  *)
(* bytes.                                                                  *)

MaxCases == 2

RunCategories == {"uints", "containers"}

CaseNames(cat) ==
    IF cat = "uints" THEN {"uint_8_max", "uint_256_zero"}
    ELSE {"SmallTestStruct_zero", "BitsStruct_one"}

ValueFor(name) ==
    CASE name = "uint_8_max" -> Num("255")
      [] name = "uint_256_zero" -> Str("0")
      [] name = "SmallTestStruct_zero" -> MapV(<<"A", "B">>, <<Num("0"), Num("0")>>)
      [] name = "BitsStruct_one" -> Example("BitsStruct")

File(name, yaml, data) == [name |-> name, yaml |-> yaml, data |-> data]

MetaFile ==
    File("meta.yaml", MapV(<<"root">>, <<Str("0x2a00000000000000000000000000000000")>>), "")
MetaNoRoot == File("meta.yaml", MapV(<<"seed">>, <<Num("1")>>), "")
ValueFile(name) == File("value.yaml", ValueFor(name), "")
Payload(fmt, name) ==
    File("serialized.ssz_snappy", Str(""), "snappy(" \o fmt \o "/" \o name \o ")")
Payload2 == File("extra.ssz_snappy", Str(""), "snappy(extra)")
Stray == File("roots.txt", Str(""), "")

\* What a case directory may hold: the shapes of the layout contract (an
\* optional meta file, an optional value file, one payload) and shapes off it.
Shapes(fmt, name) ==
    { {MetaFile, ValueFile(name), Payload(fmt, name)},
      {ValueFile(name), Payload(fmt, name)},
      {Payload(fmt, name)},
      {MetaFile, Payload(fmt, name)},
      {MetaNoRoot, Payload(fmt, name)},
      {Payload(fmt, name), Payload2},
      {Payload(fmt, name), Stray},
      {MetaFile, ValueFile(name)} }

Formats == {"valid", "invalid"}

CaseDirs(cat) ==
    UNION {{[fmt |-> f, name |-> n, parts |-> ps] : ps \in Shapes(f, n)} :
           f \in Formats, n \in CaseNames(cat)}

\* A directory holds one child of a name: (fmt, name) is unique in a corpus.
Corpora(cat) ==
    { c \in UNION {{{ds[i] : i \in 1..n} : ds \in [1..n -> CaseDirs(cat)]} : n \in 0..MaxCases} :
        \A d1, d2 \in c : (d1.fmt = d2.fmt /\ d1.name = d2.name) => d1 = d2 }

Perms(S) == {f \in [1..Cardinality(S) -> S] : \A i, j \in 1..Cardinality(S) : i # j => f[i] # f[j]}

\* DirEntry::path() of a case directory and of a child of it.
DirPath(cat, d) == SRC_DIR \o cat \o "/" \o d.fmt \o "/" \o d.name
PartPath(cat, d, part) == DirPath(cat, d) \o "/" \o part.name


----------------------------------------------------------------------------
(* Generator.  An Option is [some, v].                                     *)

None == [some |-> FALSE, v |-> ""]
NoValue == [some |-> FALSE, v |-> Str("")]
Some(v) == [some |-> TRUE, v |-> v]

\* TestCase::default()
DefaultCase == [root |-> None, value |-> NoValue, data_path |-> None, format |-> "valid"]

\* Generator::new
NewComponents(ssz_type) ==
    IF ssz_type = "containers" THEN <<SRC_PREAMBLE, CONTAINERS_DEFN_FMT>>
    ELSE <<SRC_PREAMBLE>>

\* The class load_test_case puts a child of a case directory in.
PartKind(part_name) ==
    IF Contains(part_name, "meta") THEN "meta"
    ELSE IF Contains(part_name, "value") THEN "value"
    ELSE IF Contains(part_name, "ssz_snappy") THEN "payload"
    ELSE "unknown"

UnknownPartMsg == "assertion failed: part_name.contains(\"ssz_snappy\")"

\* The body of load_test_case's loop for a child of a class: [panic, msg, tc].
LoadPartOfKind(kind, tc, part, path) ==
    CASE kind = "meta" ->
            IF part.yaml.k # "map" THEN [panic |-> TRUE, msg |-> UnwrapNone, tc |-> tc]
            ELSE IF \/ \A i \in 1..Len(part.yaml.keys) : part.yaml.keys[i] # "root"
                    \/ \E i \in 1..Len(part.yaml.keys) :
                          part.yaml.keys[i] = "root" /\ part.yaml.items[i].k # "str"
            THEN [panic |-> TRUE, msg |-> UnwrapNone, tc |-> tc]
            ELSE [panic |-> FALSE, msg |-> "",
                  tc |-> [tc EXCEPT !.root =
                             Some(part.yaml.items[CHOOSE i \in 1..Len(part.yaml.keys) :
                                                     part.yaml.keys[i] = "root"].s)]]
      [] kind = "value" ->
            [panic |-> FALSE, msg |-> "", tc |-> [tc EXCEPT !.value = Some(part.yaml)]]
      [] kind = "payload" ->
            [panic |-> FALSE, msg |-> "", tc |-> [tc EXCEPT !.data_path = Some(path)]]
      [] OTHER -> [panic |-> TRUE, msg |-> UnknownPartMsg, tc |-> tc]

\* The body of load_test_case's loop for one child.
LoadPart(tc, part, path) == LoadPartOfKind(PartKind(part.name), tc, part, path)

RECURSIVE LoadParts(_, _, _, _)
RECURSIVE LoadRest(_, _, _, _)

\* The children after the i-th, once the i-th gave r: a panic ends the loop.
LoadRest(r, ord, i, dirpath) ==
    IF r.panic THEN r ELSE LoadParts(r.tc, ord, i + 1, dirpath)

\* The children from the i-th on, in the order read_dir yields them.
LoadParts(tc, ord, i, dirpath) ==
    IF i > Len(ord) THEN [panic |-> FALSE, msg |-> "", tc |-> tc]
    ELSE LoadRest(LoadPart(tc, ord[i], dirpath \o "/" \o ord[i].name), ord, i, dirpath)

\* EntryFor without "test_case.format = format": an entry keeps its format.
EntryForKeepFormat(cases, name, format) ==
    IF name \in DOMAIN cases THEN cases[name] ELSE DefaultCase

\* self.test_cases.entry(name).or_default() with its format set
EntryFor(cases, name, format) ==
    [(IF name \in DOMAIN cases THEN cases[name] ELSE DefaultCase) EXCEPT !.format = format]

\* load_test_case on directory d whose children read_dir yields in the order ord
load_test_case(cases, format, d, ord) ==
    LoadParts(EntryFor(cases, d.name, format), ord, 1, DirPath(category, d))

Put(f, key, val) == [k \in DOMAIN f \cup {key} |-> IF k = key THEN val ELSE f[k]]

Yielded(d) == \E i \in 1..Len(dir_enum) : dir_enum[i] = [fmt |-> d.fmt, name |-> d.name]
Left(fmt) == {d \in corpus : d.fmt = fmt /\ ~Yielded(d)}

GenInit ==
    /\ category \in RunCategories
    /\ corpus \in Corpora(category)
    /\ run = 1
    /\ dir_enum = <<>>
    /\ test_cases = <<>>
    /\ components = NewComponents(category)
    /\ pc = "load"
    /\ cur = ""
    /\ emitted = <<>>
    /\ target_file = <<>>
    /\ target_data = <<>>
    /\ panic_msg = ""
    /\ prev_file = <<>>
    /\ prev_data = <<>>
    /\ TyIdle /\ UIdle /\ StIdle

\* The state after load_test_case on directory d returned r or panicked.
Loaded(d, r) ==
    /\ test_cases' = Put(test_cases, d.name, r.tc)
    /\ dir_enum' = Append(dir_enum, [fmt |-> d.fmt, name |-> d.name])
    /\ cur' = d.name
    /\ pc' = IF r.panic THEN "aborted" ELSE pc
    /\ panic_msg' = r.msg
    /\ UNCHANGED <<corpus, category, run, components, emitted, target_file, target_data,
                   prev_file, prev_data, ty_vars, u_vars, st_vars>>

\* One iteration of a read_dir loop of generate_for.
Load(format, d, ord) == Loaded(d, load_test_case(test_cases, format, d, ord))

LoadValid ==
    /\ pc = "load"
    /\ \E d \in Left("valid") : \E ord \in Perms(d.parts) : Load("valid", d, ord)

LoadInvalid ==
    /\ pc = "load"
    /\ Left("valid") = {}
    /\ \E d \in Left("invalid") : \E ord \in Perms(d.parts) : Load("invalid", d, ord)

\* execute up to its loop over the cases: do_create, which truncates the file
\* or fails, then the components written.
CreateAndWriteComponents ==
    /\ pc = "load"
    /\ Left("valid") = {} /\ Left("invalid") = {}
    /\ \E created \in BOOLEAN :
          IF created
          THEN /\ target_file' = components
               /\ pc' = "loop"
               /\ panic_msg' = ""
          ELSE /\ target_file' = target_file
               /\ pc' = "aborted"
               /\ panic_msg' = UnwrapErr
    /\ cur' = ""
    /\ UNCHANGED <<corpus, category, run, dir_enum, test_cases, components, emitted,
                   target_data, prev_file, prev_data, ty_vars, u_vars, st_vars>>


\* PathBuf::join of a relative path
PathJoin(base, rel) ==
    IF base # "" /\ Ch(base, Len(base)) = "/" THEN base \o rel ELSE base \o "/" \o rel

\* Path::strip_prefix(base): by whole components, the separator dropped.
PathStripPrefix(path, base) ==
    LET b == IF base # "" /\ Ch(base, Len(base)) = "/" THEN SubSeq(base, 1, Len(base) - 1)
             ELSE base
    IN IF path = b THEN Ok("")
       ELSE IF Len(path) > Len(b) /\ SubSeq(path, 1, Len(b) + 1) = b \o "/"
       THEN Ok(SubSeq(path, Len(b) + 2, Len(path)))
       ELSE Panic(UnwrapErr)

\* target_dir.join("data").join(rel)
TargetOf(rel) ==
    IF rel.panic THEN rel ELSE Ok(PathJoin(PathJoin(TARGET_DIR, "data"), rel.text))

\* target_dir.join("data").join(src_data_path.strip_prefix(SRC_DIR).unwrap())
TargetDataPath(src_data_path) == TargetOf(PathStripPrefix(src_data_path, SRC_DIR))

\* The bytes of the corpus file at a path.
FileData(path) ==
    LET hit == {<<d, part>> \in {<<d, part>> \in corpus \X UNION {d.parts : d \in corpus} :
                                    part \in d.parts} :
                  PartPath(category, d, part) = path}
    IN (CHOOSE h \in hit : TRUE)[2].data

\* CaseSteps with the test written before the payload is copied.
CaseStepsWriteFirst == <<"emit", "copy">>

\* The effects of one iteration of execute's loop, in order: the payload is
\* copied (lines 428-431), then the test is formatted and written (433-476).
CaseSteps == <<"copy", "emit">>

StepAfter(step) ==
    LET i == CHOOSE k \in 1..Len(CaseSteps) : CaseSteps[k] = step IN
    IF i < Len(CaseSteps) THEN CaseSteps[i + 1] ELSE "loop"

Remaining == DOMAIN test_cases \ {emitted[i] : i \in 1..Len(emitted)}

\* IterNext of a map that iterates in insertion order (the order read_dir
\* yielded the directories in) instead of key order.
IterNextInserted(remaining) ==
    LET at(n) == CHOOSE i \in 1..Len(dir_enum) :
                    /\ dir_enum[i].name = n
                    /\ \A j \in 1..(i - 1) : dir_enum[j].name # n
    IN CHOOSE n \in remaining : \A m \in remaining \ {n} : at(n) < at(m)

\* BTreeMap's iteration: the least key not yet taken.
IterNext(remaining) == CHOOSE n \in remaining : \A m \in remaining \ {n} : StrLess(n, m)

\* The test of a valid case whose value was rendered, after root.unwrap().
ValidSource(ssz_type, name, test_case, rust_type, project_path, value) ==
    IF value.panic THEN value
    ELSE IF ~test_case.root.some THEN Panic(UnwrapNone)
    ELSE Ok(ValidFragment(ssz_type, to_snake_case(name), value.text, project_path,
                          rust_type, test_case.root.v))

\* The match on the case's format, once the type and the path are there.
SourceAt(ssz_type, name, test_case, rust_type, project_path) ==
    IF project_path.panic THEN project_path
    ELSE IF test_case.format = "valid"
    THEN IF ~test_case.value.some THEN Panic(UnwrapNone)
         ELSE ValidSource(ssz_type, name, test_case, rust_type, project_path.text,
                          to_rust_value(name, rust_type, test_case.value.v))
    ELSE Ok(InvalidFragment(ssz_type, to_snake_case(name), project_path.text, rust_type))

\* target_data_path.strip_prefix("..").unwrap(), once the type is there.
SourceOfType(ssz_type, name, test_case, rust_type) ==
    IF rust_type.panic THEN rust_type
    ELSE SourceAt(ssz_type, name, test_case, rust_type.text,
                  PathStripPrefix(TargetDataPath(test_case.data_path.v).text, ".."))

\* The text execute writes for one case: [panic, text]
FragmentFor(ssz_type, name, test_case) ==
    SourceOfType(ssz_type, name, test_case, to_rust_type(ssz_type, name))

Abort(msg) ==
    /\ pc' = "aborted"
    /\ panic_msg' = msg

\* The loop of execute takes the next case of the map.
NextCase ==
    /\ pc = "loop"
    /\ Remaining # {}
    /\ cur' = IterNext(Remaining)
    /\ emitted' = Append(emitted, cur')
    /\ pc' = CaseSteps[1]
    /\ UNCHANGED <<corpus, category, run, dir_enum, test_cases, components, target_file,
                   target_data, panic_msg, prev_file, prev_data, ty_vars, u_vars, st_vars>>

\* do_copy to the target path, which may fail
CopyTo(test_case, target) ==
    IF ~test_case.data_path.some THEN Abort(UnwrapNone) /\ target_data' = target_data
    ELSE IF target.panic THEN Abort(target.text) /\ target_data' = target_data
    ELSE \E copied \in BOOLEAN :
            IF copied
            THEN /\ target_data' = Put(target_data, target.text,
                                       FileData(test_case.data_path.v))
                 /\ pc' = StepAfter("copy")
                 /\ panic_msg' = panic_msg
            ELSE Abort("can copy") /\ target_data' = target_data

\* data_path.unwrap(), the target path, do_copy
CopyArtifact ==
    /\ pc = "copy"
    /\ CopyTo(test_cases[cur], TargetDataPath(test_cases[cur].data_path.v))
    /\ UNCHANGED <<corpus, category, run, dir_enum, test_cases, components, cur, emitted,
                   target_file, prev_file, prev_data, ty_vars, u_vars, st_vars>>

\* do_write of the test, unless formatting it panicked
WriteSource(source) ==
    IF source.panic THEN Abort(source.text) /\ target_file' = target_file
    ELSE /\ target_file' = Append(target_file, source.text)
         /\ pc' = StepAfter("emit")
         /\ panic_msg' = panic_msg

\* to_rust_type, to_rust_value, the unwraps, format! and do_write
EmitFragment ==
    /\ pc = "emit"
    /\ WriteSource(FragmentFor(category, cur, test_cases[cur]))
    /\ UNCHANGED <<corpus, category, run, dir_enum, test_cases, components, cur, emitted,
                   target_data, prev_file, prev_data, ty_vars, u_vars, st_vars>>

\* The loop ends: execute and generate_for return.
Finish ==
    /\ pc = "loop"
    /\ Remaining = {}
    /\ pc' = "done"
    /\ UNCHANGED <<corpus, category, run, dir_enum, test_cases, components, cur, emitted,
                   target_file, target_data, panic_msg, prev_file, prev_data,
                   ty_vars, u_vars, st_vars>>

\* The generator is invoked again for the same category over the same corpus;
\* the output file and the mirrored artifacts of the run before are on disk.
Rerun ==
    /\ pc = "done"
    /\ run = 1
    /\ run' = run + 1
    /\ prev_file' = target_file
    /\ prev_data' = target_data
    /\ dir_enum' = <<>>
    /\ test_cases' = <<>>
    /\ components' = NewComponents(category)
    /\ emitted' = <<>>
    /\ cur' = ""
    /\ pc' = "load"
    /\ UNCHANGED <<corpus, category, target_file, target_data, panic_msg,
                   ty_vars, u_vars, st_vars>>

Next ==
    \/ LoadValid
    \/ LoadInvalid
    \/ CreateAndWriteComponents
    \/ NextCase
    \/ CopyArtifact
    \/ EmitFragment
    \/ Finish
    \/ Rerun

Init == GenInit

Spec == Init /\ [][Next]_vars


----------------------------------------------------------------------------
(* The properties of the pure functions.                                   *)

\* The first "_"-delimited token of a name.
FirstToken(name) ==
    LET k == CHOOSE k \in 0..Len(name) :
                 /\ \A i \in 1..k : Ch(name, i) # "_"
                 /\ k = Len(name) \/ Ch(name, k + 1) = "_"
    IN SubSeq(name, 1, k)

\* The element type a basic_vector's element tag stands for.
ElementOf(tag) ==
    IF tag = "bool" THEN "bool"
    ELSE IF tag = "uint256" THEN "U256"
    ELSE CHOOSE t \in {"u" \o w : w \in UintWidths} : tag = "uint" \o SubSeq(t, 2, Len(t))

\* C4: to_rust_type follows the resolver rules in every category: a
\* basic_vector name vec_{elem}_{bound}... gives Vector of the element type
\* (bool, U256 for uint256, uN for uintN) with that bound; a bitlist name gives
\* bound 256 for the bound token "no" and the literal bound otherwise; bitvector
\* gives the literal length; boolean gives bool for every name; containers gives
\* the first token verbatim; uints gives U256 when the width token contains
\* "256" and u{width} otherwise.
C4_ResolverRules ==
    ty_pc \in {"typed", "valued"} =>
        /\ \A e \in VecElems, b \in Bounds, x \in Suffixes :
              (ty_cat = "basic_vector" /\ ty_name = "vec_" \o e \o "_" \o b \o x)
              => ty_type = Ok("Vector::<" \o ElementOf(e) \o ", " \o b \o ">")
        /\ \A b \in BitBounds, x \in Suffixes :
              (ty_cat = "bitlist" /\ ty_name = "bitlist_" \o b \o x)
              => ty_type = Ok("Bitlist::<" \o (IF b = "no" THEN "256" ELSE b) \o ">")
        /\ \A b \in BitBounds \ {"no"}, x \in Suffixes :
              (ty_cat = "bitvector" /\ ty_name = "bitvec_" \o b \o x)
              => ty_type = Ok("Bitvector::<" \o b \o ">")
        /\ ty_cat = "boolean" => ty_type = Ok("bool")
        /\ ty_cat = "containers" => ty_type = Ok(FirstToken(ty_name))
        /\ \A w \in UintWidths \cup {"1256", "2560"}, x \in Suffixes :
              (ty_cat = "uints" /\ ty_name = "uint_" \o w \o x)
              => ty_type = Ok(IF w \in {"256", "1256", "2560"} THEN "U256" ELSE "u" \o w)

C4_Witness ==
    /\ ty_pc = "typed" /\ ty_cat = "basic_vector" /\ ty_name = "vec_uint16_3_zero"
    /\ ty_type = Ok("Vector::<u16, 3>")

\* C10: for every category and case name the rule to_rust_value selects agrees
\* with the type to_rust_type resolves: the wide-integer rule exactly for U256
\* in uints, the bit-sequence rules exactly for bitvector and bitlist, the
\* sequence rule exactly for basic_vector, the container rule exactly for
\* containers, the plain scalar rule exactly for bool and uN.
C10_RuleAgreesWithType ==
    ty_pc = "valued" =>
        /\ ty_rule = "u256" <=> (ty_cat = "uints" /\ ty_type.text = "U256")
        /\ ty_rule = "bitvector" <=> ty_cat = "bitvector"
        /\ ty_rule = "bitlist" <=> ty_cat = "bitlist"
        /\ ty_rule = "vector" <=> ty_cat = "basic_vector"
        /\ ty_rule = "struct" <=> ty_cat = "containers"
        /\ ty_rule = "scalar"
              <=> (ty_cat = "boolean" \/ (ty_cat = "uints" /\ ty_type.text # "U256"))

\* (x + carry * 256^Len(x)) \div m and % m of a little-endian base-256 number x,
\* for carry < m < 2^23.
RECURSIVE DivRemFrom(_, _, _)
DivRemFrom(x, m, carry) ==
    IF x = <<>> THEN [q |-> <<>>, r |-> carry]
    ELSE LET hi == DivRemFrom(Tail(x), m, carry)
             t == hi.r * 256 + x[1]
         IN [q |-> <<t \div m>> \o hi.q, r |-> t % m]

\* x \div m and x % m, the high half of x first.
DivRem(x, m) ==
    LET half == Len(x) \div 2
        hi == DivRemFrom(SubSeq(x, half + 1, Len(x)), m, 0)
    IN IF hi.r < m
       THEN LET lo == DivRemFrom(SubSeq(x, 1, half), m, hi.r)
            IN [q |-> lo.q \o hi.q, r |-> lo.r]
       ELSE [q |-> <<>>, r |-> 0]

RECURSIVE StripHighZeros(_)
StripHighZeros(x) ==
    IF x # <<>> /\ x[Len(x)] = 0 THEN StripHighZeros(SubSeq(x, 1, Len(x) - 1)) ELSE x

\* The base-10 numeral of a little-endian base-256 number, six digits a step.
RECURSIVE DecimalOf(_)
DecimalOf(x) ==
    LET d == DivRem(StripHighZeros(x), 1000000)
        low == ToString(d.r)
    IN IF StripHighZeros(d.q) = <<>> THEN low
       ELSE DecimalOf(d.q) \o SubSeq("000000", 1, 6 - Len(low)) \o low

\* a < b, of base-10 numerals without leading zeros
DecLess(a, b) == Len(a) < Len(b) \/ (Len(a) = Len(b) /\ StrLess(a, b))

\* C5: for a base-10 scalar v, to_rust_u256 renders exactly 32 bytes whose
\* little-endian value is v when v < 2^256 and aborts when v >= 2^256; for
\* v = 2^128 the bytes are 16 zeros, 0x01 at index 16, 15 zeros.
C5_U256LittleEndian ==
    u_pc = "done" =>
        /\ DecLess(u_in, TwoPow256) =>
              /\ ~u_res.panic
              /\ Len(u_bytes) = 32
              /\ \A i \in 1..32 : u_bytes[i] \in 0..255
              /\ DecimalOf(u_bytes) = u_in
        /\ ~DecLess(u_in, TwoPow256) => u_res.panic
        /\ u_in = TwoPow128 =>
              /\ u_bytes = [i \in 1..32 |-> IF i = 17 THEN 1 ELSE 0]
              /\ u_res.text = "U256::try_from_le_slice(Vec::<u8>::from_iter("
                    \o "[0, 0, 0, 0, 0, 0, 0, 0, 0, 0, 0, 0, 0, 0, 0, 0, "
                    \o "1, 0, 0, 0, 0, 0, 0, 0, 0, 0, 0, 0, 0, 0, 0, 0]"
                    \o ").as_ref()).unwrap()"

C5_Witness ==
    /\ u_pc = "done" /\ u_in = TwoPow256Less1
    /\ ~u_res.panic
    /\ u_bytes = [i \in 1..32 |-> 255]

\* The lower-cased keys of a field mapping.
LowerKeys(value) == [i \in 1..Len(value.keys) |-> ToLowercase(value.keys[i])]

\* C7: a field mapping with a duplicate field name (after lower-casing), or
\* without one of the container's declared fields, is fatal: to_rust_struct
\* renders no container literal.
C7_BadFieldsFatal ==
    ( /\ st_pc = "done" /\ st_value.k = "map"
      /\ \/ \E i, j \in 1..Len(st_value.keys) :
                i # j /\ LowerKeys(st_value)[i] = LowerKeys(st_value)[j]
         \/ \E f \in DeclaredFields(st_type) :
                \A i \in 1..Len(st_value.keys) : LowerKeys(st_value)[i] # f )
    => st_res.panic

----------------------------------------------------------------------------
(* Reference definitions the properties are stated with.                   *)

\* The test fragments in the output file, and the artifacts mirrored.
NumFragments ==
    IF Len(target_file) > Len(components) THEN Len(target_file) - Len(components) ELSE 0
NumCopied == Cardinality(DOMAIN target_data)

AllLoaded == Left("valid") = {} /\ Left("invalid") = {}
LoadingDone == pc \in {"loop", "copy", "emit", "done"}

\* Where the artifact of a payload at src is to be found.
MirrorOf(src) == "../ssz-rs/tests/data/" \o SubSeq(src, Len(SRC_DIR) + 1, Len(src))

IsPayloadName(n) == n \in {"serialized.ssz_snappy", "extra.ssz_snappy"}
Holds(n, partNames) ==
    \E d \in corpus : d.name = n /\ \E part \in d.parts : part.name \in partNames

\* The data model's invariant of one case.
DataModelOk(tc) ==
    /\ tc.data_path.some
    /\ tc.format = "valid" => tc.value.some
    /\ tc.format = "invalid" => ~tc.value.some /\ ~tc.root.some

\* The corpus keeps the layout the data model assumes: a valid directory holds
\* a value file, an optional meta file and one payload; an invalid directory
\* holds one payload only; no name lies under both valid/ and invalid/.
DataModelCorpus ==
    /\ \A d \in corpus :
          /\ Cardinality({part \in d.parts : IsPayloadName(part.name)}) = 1
          /\ \A part \in d.parts : part.name \in {"meta.yaml", "value.yaml"} \/ IsPayloadName(part.name)
          /\ d.fmt = "valid" => \E part \in d.parts : part.name = "value.yaml"
          /\ d.fmt = "invalid" => \A part \in d.parts : IsPayloadName(part.name)
    /\ \A d1, d2 \in corpus : d1.name = d2.name => d1 = d2

\* The layout contract of the corpus: in every case directory an optional meta
\* file, an optional value file and exactly one payload file.
LayoutContract ==
    \A d \in corpus :
        /\ Cardinality({part \in d.parts : IsPayloadName(part.name)}) = 1
        /\ \A part \in d.parts : part.name \in {"meta.yaml", "value.yaml"} \/ IsPayloadName(part.name)

\* C1 as claimed: load-all, emit-all, write-file, copy-all: on a clean target
\* tree no artifact is copied before the last fragment is written, and no
\* fragment is written before every case is loaded.
C1_CopyAfterLastFragment ==
    run = 1 =>
        /\ NumCopied > 0 => NumFragments = Cardinality(DOMAIN test_cases)
        /\ NumFragments > 0 => AllLoaded

\* C1 as amended: nothing is written or copied before every valid and invalid
\* case is loaded and the components are written before any copy; then, case by
\* case, the artifact is copied and then the fragment written, so that the copies
\* made are the fragments written or one more.
C1_CopyThenFragmentPerCase ==
    run = 1 =>
        /\ (target_file # <<>> \/ NumCopied > 0) => AllLoaded
        /\ NumCopied > 0 => Len(target_file) >= Len(components)
        /\ NumFragments <= NumCopied
        /\ NumCopied <= NumFragments + 1

C1_Witness ==
    /\ run = 1 /\ pc = "emit"
    /\ Len(emitted) = 2
    /\ NumFragments = 1 /\ NumCopied = 2

\* C2 as claimed: once every directory is loaded, every entry has a payload path,
\* a valid entry has a value tree, an invalid entry has neither value nor root.
C2_DataModelInvariant ==
    LoadingDone => \A n \in DOMAIN test_cases : DataModelOk(test_cases[n])

\* C2 as amended: once every directory is loaded the map has one entry per
\* directory name; the entry's format is invalid exactly when a directory of the
\* name lies under invalid/; it has a payload path, a value tree, a root exactly
\* when a directory of the name (valid or invalid) holds a payload file, a value
\* file, a meta file; and the claimed invariant holds for the corpora that keep
\* the data model's layout.
C2_EntriesMirrorDirectories ==
    LoadingDone =>
        /\ DOMAIN test_cases = {d.name : d \in corpus}
        /\ \A n \in DOMAIN test_cases :
              /\ test_cases[n].format = "invalid"
                    <=> \E d \in corpus : d.name = n /\ d.fmt = "invalid"
              /\ test_cases[n].data_path.some
                    <=> Holds(n, {"serialized.ssz_snappy", "extra.ssz_snappy"})
              /\ test_cases[n].value.some <=> Holds(n, {"value.yaml"})
              /\ test_cases[n].root.some <=> Holds(n, {"meta.yaml"})
        /\ DataModelCorpus => \A n \in DOMAIN test_cases : DataModelOk(test_cases[n])

C2_Witness ==
    /\ LoadingDone /\ DataModelCorpus
    /\ \E v, i \in DOMAIN test_cases :
          /\ test_cases[v].format = "valid" /\ test_cases[v].value.some
          /\ test_cases[v].root.some /\ test_cases[v].data_path.some
          /\ test_cases[i].format = "invalid" /\ ~test_cases[i].value.some
          /\ ~test_cases[i].root.some /\ test_cases[i].data_path.some

\* The case names in ascending order.
RECURSIVE Ascending(_)
Ascending(names) ==
    IF names = {} THEN <<>>
    ELSE LET least == CHOOSE n \in names : \A m \in names \ {n} : StrLess(n, m)
         IN <<least>> \o Ascending(names \ {least})

\* C3: the file of a run that completes is the preamble, the container
\* definitions iff the category is containers, then one fragment per case in
\* ascending name order; and every case the data model allows (a valid case with
\* or without a root, an invalid case) gets its fragment once the loop is through
\* with it, unless a copy failed.
C3_EveryCaseEmitted ==
    /\ pc = "done" =>
          /\ Len(target_file) = Len(components) + Cardinality(DOMAIN test_cases)
          /\ target_file[1] = SRC_PREAMBLE
          /\ (category = "containers") <=> (Len(components) = 2)
          /\ category = "containers" => target_file[2] = CONTAINERS_DEFN_FMT
          /\ emitted = Ascending(DOMAIN test_cases)
          /\ \A k \in 1..Len(emitted) :
                target_file[Len(components) + k]
                    = FragmentFor(category, emitted[k], test_cases[emitted[k]]).text
    /\ \A k \in 1..Len(emitted) :
          ( /\ DataModelOk(test_cases[emitted[k]])
            /\ k < Len(emitted) \/ pc \in {"loop", "done", "aborted"}
            /\ panic_msg # "can copy" )
          => NumFragments >= k

\* C6: a child of a case directory whose name contains none of "meta", "value"
\* and "ssz_snappy" aborts the run, and the error names that file.
C6_UnknownChildNamed ==
    \A d \in corpus :
        \A part \in d.parts :
            ( /\ Yielded(d)
              /\ ~Contains(part.name, "meta") /\ ~Contains(part.name, "value")
              /\ ~Contains(part.name, "ssz_snappy") )
            => pc = "aborted" /\ Contains(panic_msg, part.name)

\* C8: over a corpus that keeps the layout contract, a second run that completes
\* leaves the generated source and the mirrored artifacts as the first run left
\* them, whatever order the directories and their children were enumerated in.
C8_SecondRunSameOutputs ==
    (pc = "done" /\ run = 2 /\ LayoutContract)
        => target_file = prev_file /\ target_data = prev_data

C8_Witness ==
    /\ pc = "done" /\ run = 2 /\ LayoutContract
    /\ Len(emitted) = 2 /\ Len(dir_enum) = 2
    /\ dir_enum[1].name = emitted[2]
    /\ NumFragments = 2
    /\ target_file = prev_file /\ target_data = prev_data

\* C9: on a clean target tree, at every point of execute, an abort included,
\* the payload of every fragment in the output file is already mirrored, with
\* the payload's bytes: the k-th fragment is the k-th case's.
C9_FragmentsReferenceMirrored ==
    run = 1 =>
        \A k \in 1..NumFragments :
            LET src == test_cases[emitted[k]].data_path.v IN
            /\ MirrorOf(src) \in DOMAIN target_data
            /\ target_data[MirrorOf(src)] = FileData(src)

C9_Witness ==
    /\ run = 1 /\ pc = "aborted" /\ panic_msg = "can copy"
    /\ NumFragments = 1 /\ NumCopied = 1
    /\ Contains(target_file[Len(components) + 1],
                SubSeq(MirrorOf(test_cases[emitted[1]].data_path.v), 4,
                       Len(MirrorOf(test_cases[emitted[1]].data_path.v))))

====
